---- MODULE Spec2Model ----
(***************************************************************************)
(* binx: an interactive terminal viewer of a file's bytes (src/main.go).   *)
(* The model is the action/reducer machine of main.go: the main goroutine  *)
(* polls terminal events, translates them to Actions and sends them on the *)
(* Dispatcher channel, then renders; the Reduce goroutine receives the     *)
(* Actions and applies rootReducer to the one AppState under its mutex.    *)
(*                                                                         *)
(* Strings are sequences of one-character strings, so that parsing and     *)
(* decoding work on the characters as the Go code does.                    *)
(***************************************************************************)
EXTENDS Integers, Sequences, FiniteSets, TLC

\* ------------------------------------------------------------------------
\* Program constants
\* ------------------------------------------------------------------------

\* Input modes (iota)
NormalMode == 0
SeekInputMode == 1
PatternInputMode == 2

\* Action names
BinxResize == "BINX_RESIZE"
BinxEscape == "BINX_ESCAPE"
BinxKeyEnter == "BINX_KEYENTER"
BinxKeyUp == "BINX_KEYUP"
BinxKeyDown == "BINX_KEYDOWN"
BinxSetScreenStyle == "BINX_SETSTYLE"
BinxKeyS == "BINX_KEY_S"
BinxKeyF == "BINX_KEY_F"
BinxKeyOther == "BINX_KEY_OTHER"

\* make(chan Action, 20)
DispatcherCap == 20

\* byteVisWidth: 80 in the initial AppState
InitByteVisWidth == 80

\* ------------------------------------------------------------------------
\* Bounds of the model
\* ------------------------------------------------------------------------

\* the user waits while this many actions are sent and not yet reduced
MaxPending == 1

\* the user does not scroll or seek the viewport beyond this offset
MaxStart == 80

\* a burst of arrow keys stops while this many actions are sent and not yet
\* reduced
MaxBurst == 3

\* a burst of arrow keys does not scroll the viewport beyond this offset
MaxBurstStart == 160

\* the longest pattern text and the longest buffer of a direct call of
\* findBytePattern
MaxPatLen == 4
MaxBufLen == 3

\* ------------------------------------------------------------------------
\* Characters and numbers
\* ------------------------------------------------------------------------

Max(a, b) == IF a > b THEN a ELSE b

DigitChars ==
    << "0", "1", "2", "3", "4", "5", "6", "7", "8", "9",
       "a", "b", "c", "d", "e", "f", "g", "h", "i", "j", "k", "l", "m",
       "n", "o", "p", "q", "r", "s", "t", "u", "v", "w", "x", "y", "z" >>

\* the digit value strconv gives a character: '0'..'9' are 0..9, 'a'..'z'
\* are 10..35, anything else is no digit
NoDigit == 99

DigitVal(c) ==
    IF \E i \in 1..Len(DigitChars) : DigitChars[i] = c
    THEN (CHOOSE i \in 1..Len(DigitChars) : DigitChars[i] = c) - 1
    ELSE NoDigit

\* strconv.ParseUint's digit loop: value of the digits s in the base, or an
\* error when a character is no digit of the base
RECURSIVE ParseDigits(_, _, _)
ParseDigits(s, base, acc) ==
    IF s = << >> THEN [val |-> acc, err |-> FALSE]
    ELSE IF DigitVal(Head(s)) >= base THEN [val |-> 0, err |-> TRUE]
    ELSE ParseDigits(Tail(s), base, acc * base + DigitVal(Head(s)))

\* ParseUint as if the base were fixed at 10 instead of taken from the prefix
ParseUintBase10(s) ==
    IF s = << >> THEN [val |-> 0, err |-> TRUE]
    ELSE ParseDigits(s, 10, 0)

\* strconv.ParseUint(s, 0, 64): the base comes from the prefix, "0x" for
\* 16 and a leading "0" for 8, else 10.  On a syntax error the value is 0.
ParseUint(s) ==
    IF s = << >> THEN [val |-> 0, err |-> TRUE]
    ELSE IF Head(s) = "0"
         THEN IF Len(s) >= 3 /\ s[2] = "x"
              THEN ParseDigits(SubSeq(s, 3, Len(s)), 16, 0)
              ELSE ParseDigits(Tail(s), 8, 0)
         ELSE ParseDigits(s, 10, 0)

\* strconv.ParseInt(s, 0, 64): an optional sign, then ParseUint.  The texts
\* of the model are short, so no value leaves the signed 64-bit range.
ParseInt(s) ==
    IF s = << >> THEN [val |-> 0, err |-> TRUE]
    ELSE LET neg == Head(s) = "-"
             body == IF Head(s) \in {"+", "-"} THEN Tail(s) ELSE s
             un == ParseUint(body)
         IN  IF un.err THEN [val |-> 0, err |-> TRUE]
             ELSE [val |-> IF neg THEN 0 - un.val ELSE un.val, err |-> FALSE]

\* ------------------------------------------------------------------------
\* findBytePattern
\* ------------------------------------------------------------------------

ErrLength == "encoding/hex: odd length hex string"
InvalidByteError == "encoding/hex: invalid byte"
NoError == ""

IsHexChar(c) == DigitVal(c) < 16

RECURSIVE DecodePairs(_)
DecodePairs(p) ==
    IF Len(p) < 2 THEN << >>
    ELSE << DigitVal(p[1]) * 16 + DigitVal(p[2]) >>
         \o DecodePairs(SubSeq(p, 3, Len(p)))

\* hex.DecodeString: every character must be a hex digit and the length
\* even; the bytes are the values of the pairs
HexDecodeString(p) ==
    IF \E i \in 1..Len(p) : ~IsHexChar(p[i])
    THEN [bytes |-> << >>, err |-> InvalidByteError]
    ELSE IF Len(p) % 2 = 1
    THEN [bytes |-> << >>, err |-> ErrLength]
    ELSE [bytes |-> DecodePairs(p), err |-> NoError]

\* sep occurs in buf at the 0-based offset i
OccursAt(buf, sep, i) ==
    /\ i + Len(sep) <= Len(buf)
    /\ \A k \in 1..Len(sep) : buf[i + k] = sep[k]

\* bytes.Index as if it returned the offset of the last occurrence
BytesLastIndex(buf, sep) ==
    LET hits == {i \in 0..Len(buf) : OccursAt(buf, sep, i)}
    IN  IF hits = {} THEN 0 - 1
        ELSE CHOOSE i \in hits : \A j \in hits : i >= j

\* bytes.Index: offset of the first occurrence of sep in buf, or -1
BytesIndex(buf, sep) ==
    LET hits == {i \in 0..Len(buf) : OccursAt(buf, sep, i)}
    IN  IF hits = {} THEN 0 - 1
        ELSE CHOOSE i \in hits : \A j \in hits : i <= j

\* findBytePattern as if it swallowed the decoding error
findBytePatternNoError(p, buf) ==
    [pos |-> BytesIndex(buf, HexDecodeString(p).bytes), err |-> NoError]

\* findBytePattern: (0, err) when the text does not decode, else the result
\* of bytes.Index and a nil error
findBytePattern(p, buf) ==
    LET dec == HexDecodeString(p)
    IN  IF dec.err # NoError
        THEN [pos |-> 0, err |-> dec.err]
        ELSE [pos |-> BytesIndex(buf, dec.bytes), err |-> NoError]

\* ------------------------------------------------------------------------
\* Actions and the reducer
\* ------------------------------------------------------------------------

\* Action{name, value}: the value is the rune of a character key, else the
\* event itself, which the reducer never reads
Action(n, v) == [name |-> n, value |-> v]

NoAction == [name |-> "none", value |-> "none"]

\* BinxEscape in NormalMode: screen.Fini() and os.Exit(0)
Exits(st, a) == a.name = BinxEscape /\ st.mode = NormalMode

\* ReduceKeyUp as if the result were not clamped at 0
ReduceKeyUpNoClamp(st) ==
    [st EXCEPT !.startByte = st.startByte - st.byteVisWidth]

\* state.startByte -= byteVisWidth; if state.startByte < 0, it becomes 0
ReduceKeyUp(st) ==
    LET s == st.startByte - st.byteVisWidth
    IN  [st EXCEPT !.startByte = IF s < 0 THEN 0 ELSE s]

\* ReduceKeyDown as if it scrolled by a byte, not by a row
ReduceKeyDownByte(st) ==
    [st EXCEPT !.startByte = st.startByte + 1]

\* state.startByte += byteVisWidth
ReduceKeyDown(st) ==
    [st EXCEPT !.startByte = st.startByte + st.byteVisWidth]

\* ReduceResize as if it also dropped the text being typed
ReduceResizeClearInput(st, h) ==
    [st EXCEPT !.byteVisHeight = h - 1, !.userInput = << >>]

\* h is the height screen.Size() returns when the action is reduced
ReduceResize(st, h) ==
    [st EXCEPT !.byteVisHeight = h - 1]

\* ReduceEscape as if the text were not cleared on leaving an input mode
ReduceEscapeKeepInput(st) ==
    IF st.mode \in {SeekInputMode, PatternInputMode}
    THEN [st EXCEPT !.mode = NormalMode]
    ELSE st

ReduceEscape(st) ==
    IF st.mode \in {SeekInputMode, PatternInputMode}
    THEN [st EXCEPT !.mode = NormalMode, !.userInput = << >>]
    ELSE st

ReduceEnterSeek(st) ==
    [st EXCEPT !.startByte = ParseInt(st.userInput).val,
               !.userInput = << >>,
               !.mode = NormalMode]

ReduceEnterPattern(st) ==
    LET r == findBytePattern(st.userInput, st.dat)
    IN  [st EXCEPT !.status = IF r.err # NoError THEN r.err ELSE st.status,
                   !.highlightPos = r.pos,
                   !.userInput = << >>]

ReduceKeyEnter(st) ==
    IF st.mode = SeekInputMode THEN ReduceEnterSeek(st)
    ELSE IF st.mode = PatternInputMode THEN ReduceEnterPattern(st)
    ELSE st

ReduceKeyS(st, r) ==
    IF st.mode = NormalMode
    THEN [st EXCEPT !.mode = SeekInputMode, !.userInput = << >>]
    ELSE IF st.mode = SeekInputMode
    THEN [st EXCEPT !.userInput = Append(st.userInput, r)]
    ELSE st

ReduceKeyF(st, r) ==
    IF st.mode = NormalMode
    THEN [st EXCEPT !.mode = PatternInputMode, !.userInput = << >>]
    ELSE [st EXCEPT !.userInput = Append(st.userInput, r)]

\* ReduceKeyOther as if it appended the rune in every mode
ReduceKeyOtherAnyMode(st, r) ==
    [st EXCEPT !.userInput = Append(st.userInput, r)]

ReduceKeyOther(st, r) ==
    IF st.mode = SeekInputMode
    THEN [st EXCEPT !.userInput = Append(st.userInput, r)]
    ELSE st

\* the switch of rootReducer, after state.lastAction = action.name
ReduceSwitch(st, a, h) ==
    CASE a.name = BinxKeyUp -> ReduceKeyUp(st)
      [] a.name = BinxKeyDown -> ReduceKeyDown(st)
      [] a.name = BinxResize -> ReduceResize(st, h)
      [] a.name = BinxEscape -> ReduceEscape(st)
      [] a.name = BinxKeyEnter -> ReduceKeyEnter(st)
      [] a.name = BinxSetScreenStyle -> st
      [] a.name = BinxKeyS -> ReduceKeyS(st, a.value)
      [] a.name = BinxKeyF -> ReduceKeyF(st, a.value)
      [] a.name = BinxKeyOther -> ReduceKeyOther(st, a.value)
      [] OTHER -> st

\* the state rootReducer leaves for an action that does not end the process
rootReducer(st, a, h) ==
    ReduceSwitch([st EXCEPT !.lastAction = a.name], a, h)

\* ------------------------------------------------------------------------
\* render
\* ------------------------------------------------------------------------

numVisibleBytes(st) == Max(0, st.byteVisWidth * st.byteVisHeight)

RenderLo(st) == st.startByte
RenderHi(st) == st.startByte + numVisibleBytes(st)

\* state.dat[lo:hi] panics unless 0 <= lo <= hi <= cap(state.dat)
RenderPanics(st) ==
    ~(0 <= RenderLo(st) /\ RenderLo(st) <= RenderHi(st)
        /\ RenderHi(st) <= st.datCap)

\* the indices of state.dat that the range loop of render reads
RenderReads(st) ==
    IF RenderPanics(st) THEN {} ELSE RenderLo(st)..(RenderHi(st) - 1)

\* ------------------------------------------------------------------------
\* Terminal events and their translation
\* ------------------------------------------------------------------------

\* heights the terminal takes
TermHeights == {0, 2}

\* characters the user types
Runes == {"0", "1", "x", "f", "s", "-"}

KeyEvent(k, r) == [type |-> "key", key |-> k, rune |-> r, h |-> 0]
ResizeEvent(h) == [type |-> "resize", key |-> "none", rune |-> "none", h |-> h]
MouseEvent == [type |-> "mouse", key |-> "none", rune |-> "none", h |-> 0]
NoEvent == [type |-> "none", key |-> "none", rune |-> "none", h |-> 0]

Events ==
    {ResizeEvent(h) : h \in TermHeights}
    \cup {KeyEvent(k, "none") : k \in {"Escape", "Down", "Up", "Enter"}}
    \cup {KeyEvent("Rune", r) : r \in Runes}
    \cup {MouseEvent}

\* HandleTcellEvent: the Action it sends for an event, NoAction for an event
\* that is neither a resize nor a key
TranslateEvent(ev) ==
    IF ev.type = "resize" THEN Action(BinxResize, "ev")
    ELSE IF ev.type = "key"
    THEN IF ev.key = "Escape" THEN Action(BinxEscape, "ev")
         ELSE IF ev.key = "Down" THEN Action(BinxKeyDown, "ev")
         ELSE IF ev.key = "Up" THEN Action(BinxKeyUp, "ev")
         ELSE IF ev.key = "Enter" THEN Action(BinxKeyEnter, "ev")
         ELSE IF ev.rune = "s" THEN Action(BinxKeyS, ev.rune)
         ELSE IF ev.rune = "f" THEN Action(BinxKeyF, ev.rune)
         ELSE Action(BinxKeyOther, ev.rune)
    ELSE NoAction

\* ------------------------------------------------------------------------
\* Files and the texts the user types
\* ------------------------------------------------------------------------

\* the ten bytes of Test_findBytePattern
TestBuf == << 0, 1, 2, 3, 4, 5, 6, 7, 8, 9 >>

\* a file of more than one row of bytes, with one 0xff byte at offset 90
BigBuf == [i \in 1..100 |-> IF i = 91 THEN 255 ELSE (i - 1) % 16]

\* the files viewed: ioutil.ReadFile returns the bytes in a slice whose
\* capacity may exceed its length
Files == {[dat |-> TestBuf, slack |-> 512], [dat |-> BigBuf, slack |-> 0]}

\* digits of n in the base, most significant first
RECURSIVE ToBase(_, _)
ToBase(n, base) ==
    IF n < base THEN << DigitChars[n + 1] >>
    ELSE Append(ToBase(n \div base, base), DigitChars[(n % base) + 1])

\* the literal of n in base 10, 16 ("0x") or 8 ("0")
Literal(n, base) ==
    IF base = 16 THEN << "0", "x" >> \o ToBase(n, 16)
    ELSE IF base = 8 THEN << "0" >> \o ToBase(n, 8)
    ELSE ToBase(n, 10)

\* offsets the user seeks to, each with the base it is written in
SeekTargets ==
    {[n |-> 16, base |-> 16], [n |-> 15, base |-> 16],
     [n |-> 8, base |-> 8], [n |-> 10, base |-> 10]}

SeekLiterals == {Literal(t.n, t.base) : t \in SeekTargets}

\* a negative literal, texts that are no literal, and a search pattern
OtherTexts == {<< "-", "1" >>, << "s" >>, << "f", "f" >>}

Prefixes(t) == {SubSeq(t, 1, k) : k \in 0..Len(t)}

\* every text the user has typed so far is the beginning of one of the texts
TypedTexts == UNION {Prefixes(t) : t \in SeekLiterals \cup OtherTexts}

\* ------------------------------------------------------------------------
\* State
\* ------------------------------------------------------------------------

VARIABLES
    state,       \* the AppState
    mutex,       \* AppState.mutex: "free", or the goroutine holding it
    Dispatcher,  \* Store.Dispatcher, the buffered channel of Actions
    termH,       \* the height screen.Size() returns
    mpc,         \* position of the main goroutine
    ev,          \* the event PollEvent returned to main
    rpc,         \* position of the Reduce goroutine
    action,      \* the Action Reduce received
    run,         \* "running", "exited" (os.Exit) or "panicked"
    arg,         \* the arguments of a direct call of a function, as a test makes
    ret          \* what the direct call returned

vars ==
    << state, mutex, Dispatcher, termH, mpc, ev, rpc, action, run, arg, ret >>

\* the variables of a direct call
callVars == << arg, ret >>

\* no direct call is made, or it has not returned
NoCall == [fn |-> "none"]

\* the AppState literal of main, for a file and a terminal height
InitState(dat, slack, h) ==
    [dat |-> dat,
     datCap |-> Len(dat) + slack,
     byteVisWidth |-> InitByteVisWidth,
     byteVisHeight |-> h - 1,
     startByte |-> 0,
     mode |-> NormalMode,
     userInput |-> << >>,
     highlightPos |-> 0,
     lastAction |-> "",
     status |-> ""]

\* main up to go store.Reduce(): the state is built, the Reduce goroutine
\* waits on the empty channel, main is about to send BinxSetScreenStyle
InitProgram ==
    /\ termH \in TermHeights
    /\ \E f \in Files : state = InitState(f.dat, f.slack, termH)
    /\ mutex = "free"
    /\ Dispatcher = << >>
    /\ mpc = "setstyle"
    /\ ev = NoEvent
    /\ rpc = "recv"
    /\ action = NoAction
    /\ run = "running"

Init == InitProgram /\ arg = NoCall /\ ret = NoCall

\* ------------------------------------------------------------------------
\* The channel
\* ------------------------------------------------------------------------

ChanSend(ch, a) == Append(ch, a)
\* ChanFront as if the channel delivered the newest action first
ChanBack(ch) == ch[Len(ch)]

ChanFront(ch) == Head(ch)
ChanRest(ch) == Tail(ch)

\* ------------------------------------------------------------------------
\* The main goroutine
\* ------------------------------------------------------------------------

\* store.Dispatcher <- Action{name: BinxSetScreenStyle, ...}
MainSetStyle ==
    /\ run = "running" /\ mpc = "setstyle"
    /\ Len(Dispatcher) < DispatcherCap
    /\ Dispatcher' = ChanSend(Dispatcher, Action(BinxSetScreenStyle, "style"))
    /\ mpc' = "poll"
    /\ UNCHANGED << state, mutex, termH, ev, rpc, action, run >>
    /\ UNCHANGED callVars

\* the actions sent and not yet reduced, oldest first
InFlight ==
    (IF rpc = "recv" THEN << >> ELSE << action >>) \o Dispatcher

RECURSIVE ReduceAll(_, _, _)
ReduceAll(st, as, h) ==
    IF as = << >> THEN st
    ELSE ReduceAll(rootReducer(st, Head(as), h), Tail(as), h)

\* what the user does next stays within the bounds: fewer than MaxPending
\* actions are sent and not yet reduced, and once they are reduced the
\* viewport is not beyond MaxStart, the text typed so far is one of
\* TypedTexts and a character typed continues one of them
UserMay(e, h) ==
    LET a == TranslateEvent(e)
        st == ReduceAll(state, InFlight, h)
        nx == IF a = NoAction THEN st ELSE rootReducer(st, a, h)
    IN  /\ Len(InFlight) < MaxPending
        /\ nx.userInput \in TypedTexts
        /\ e.key = "Rune" => Append(st.userInput, e.rune) \in TypedTexts
        /\ nx.startByte <= MaxStart

\* ev := s.PollEvent(); a resize has changed the size of the screen
PollEvent ==
    /\ run = "running" /\ mpc = "poll"
    /\ \E e \in Events :
         /\ termH' = IF e.type = "resize" THEN e.h ELSE termH
         /\ UserMay(e, termH')
         /\ ev' = e
    /\ mpc' = "handle"
    /\ UNCHANGED << state, mutex, Dispatcher, rpc, action, run >>
    /\ UNCHANGED callVars

\* the arrow keys the user hits in a burst, faster than they are reduced
BurstEvents == {KeyEvent(k, "none") : k \in {"Down", "Up"}}

BurstMay(e, h) ==
    /\ Len(InFlight) < MaxBurst
    /\ rootReducer(ReduceAll(state, InFlight, h), TranslateEvent(e), h).startByte
           <= MaxBurstStart

\* ev := s.PollEvent(), during a burst of arrow keys
PollBurst ==
    /\ run = "running" /\ mpc = "poll"
    /\ \E e \in BurstEvents :
         /\ BurstMay(e, termH)
         /\ ev' = e
    /\ mpc' = "handle"
    /\ UNCHANGED << state, mutex, Dispatcher, termH, rpc, action, run >>
    /\ UNCHANGED callVars

\* the user holds the Up arrow, which repeats without end, and hits Escape
\* at most once while the repeats go on
HoldEvents == {KeyEvent(k, "none") : k \in {"Up", "Escape"}}

HoldMay(e) ==
    e.key = "Escape" =>
        \A i \in 1..Len(InFlight) : InFlight[i].name # BinxEscape

\* ev := s.PollEvent(), while a key is held
PollHold ==
    /\ run = "running" /\ mpc = "poll"
    /\ \E e \in HoldEvents :
         /\ HoldMay(e)
         /\ ev' = e
    /\ mpc' = "handle"
    /\ UNCHANGED << state, mutex, Dispatcher, termH, rpc, action, run >>
    /\ UNCHANGED callVars

\* HandleTcellEvent as if the send dropped the action when the channel is
\* full instead of blocking
HandleTcellEventDrop ==
    /\ run = "running" /\ mpc = "handle"
    /\ IF TranslateEvent(ev) = NoAction \/ Len(Dispatcher) >= DispatcherCap
       THEN UNCHANGED Dispatcher
       ELSE Dispatcher' = ChanSend(Dispatcher, TranslateEvent(ev))
    /\ mpc' = "render"
    /\ ev' = NoEvent
    /\ UNCHANGED << state, mutex, termH, rpc, action, run >>
    /\ UNCHANGED callVars

\* HandleTcellEvent(store, ev): the send blocks while the channel is full;
\* an event that is neither a resize nor a key sends nothing
HandleTcellEvent ==
    /\ run = "running" /\ mpc = "handle"
    /\ IF TranslateEvent(ev) = NoAction
       THEN UNCHANGED Dispatcher
       ELSE /\ Len(Dispatcher) < DispatcherCap
            /\ Dispatcher' = ChanSend(Dispatcher, TranslateEvent(ev))
    /\ mpc' = "render"
    /\ ev' = NoEvent
    /\ UNCHANGED << state, mutex, termH, rpc, action, run >>
    /\ UNCHANGED callVars

\* render: state.mutex.Lock()
RenderLock ==
    /\ run = "running" /\ mpc = "render"
    /\ mutex = "free"
    /\ mutex' = "main"
    /\ mpc' = "draw"
    /\ UNCHANGED << state, Dispatcher, termH, ev, rpc, action, run >>
    /\ UNCHANGED callVars

\* render: the range loop over state.dat[startByte:startByte+numVisibleBytes],
\* the status bar and state.mutex.Unlock(); a slice out of range panics
RenderDraw ==
    /\ run = "running" /\ mpc = "draw"
    /\ IF RenderPanics(state)
       THEN /\ run' = "panicked"
            /\ UNCHANGED << mutex, mpc >>
       ELSE /\ mutex' = "free"
            /\ mpc' = "poll"
            /\ UNCHANGED run
    /\ UNCHANGED << state, Dispatcher, termH, ev, rpc, action >>
    /\ UNCHANGED callVars

\* ------------------------------------------------------------------------
\* The Reduce goroutine
\* ------------------------------------------------------------------------

\* case action := <-s.Dispatcher
ReduceRecv ==
    /\ run = "running" /\ rpc = "recv"
    /\ Dispatcher # << >>
    /\ action' = ChanFront(Dispatcher)
    /\ Dispatcher' = ChanRest(Dispatcher)
    /\ rpc' = "lock"
    /\ UNCHANGED << state, mutex, termH, mpc, ev, run >>
    /\ UNCHANGED callVars

\* ReduceLock as if Lock did not wait for the mutex to be free
ReduceLockNoWait ==
    /\ run = "running" /\ rpc = "lock"
    /\ mutex' = "reducer"
    /\ rpc' = "reduce"
    /\ UNCHANGED << state, Dispatcher, termH, mpc, ev, action, run >>
    /\ UNCHANGED callVars

\* rootReducer: state.mutex.Lock()
ReduceLock ==
    /\ run = "running" /\ rpc = "lock"
    /\ mutex = "free"
    /\ mutex' = "reducer"
    /\ rpc' = "reduce"
    /\ UNCHANGED << state, Dispatcher, termH, mpc, ev, action, run >>
    /\ UNCHANGED callVars

\* ReduceApply as if rootReducer returned without state.mutex.Unlock()
ReduceApplyNoUnlock ==
    /\ run = "running" /\ rpc = "reduce"
    /\ IF Exits(state, action)
       THEN /\ state' = [state EXCEPT !.lastAction = action.name]
            /\ run' = "exited"
            /\ UNCHANGED << mutex, rpc, action >>
       ELSE /\ state' = rootReducer(state, action, termH)
            /\ rpc' = "recv"
            /\ action' = NoAction
            /\ UNCHANGED << mutex, run >>
    /\ UNCHANGED << Dispatcher, termH, mpc, ev >>
    /\ UNCHANGED callVars

\* rootReducer: lastAction, the switch and state.mutex.Unlock(); BinxEscape
\* in NormalMode ends the process inside the switch
ReduceApply ==
    /\ run = "running" /\ rpc = "reduce"
    /\ IF Exits(state, action)
       THEN /\ state' = [state EXCEPT !.lastAction = action.name]
            /\ run' = "exited"
            /\ UNCHANGED << mutex, rpc, action >>
       ELSE /\ state' = rootReducer(state, action, termH)
            /\ mutex' = "free"
            /\ rpc' = "recv"
            /\ action' = NoAction
            /\ UNCHANGED run
    /\ UNCHANGED << Dispatcher, termH, mpc, ev >>
    /\ UNCHANGED callVars

Next ==
    \/ MainSetStyle
    \/ PollEvent
    \/ HandleTcellEvent
    \/ RenderLock
    \/ RenderDraw
    \/ ReduceRecv
    \/ ReduceLock
    \/ ReduceApply

Spec == Init /\ [][Next]_vars

\* the same program under a burst of arrow keys
NextBurst ==
    \/ MainSetStyle
    \/ PollBurst
    \/ HandleTcellEvent
    \/ RenderLock
    \/ RenderDraw
    \/ ReduceRecv
    \/ ReduceLock
    \/ ReduceApply

SpecBurst == Init /\ [][NextBurst]_vars

\* the same program while a key is held
NextHold ==
    \/ MainSetStyle
    \/ PollHold
    \/ HandleTcellEvent
    \/ RenderLock
    \/ RenderDraw
    \/ ReduceRecv
    \/ ReduceLock
    \/ ReduceApply

\* The Go scheduler runs every goroutine that can take a step, and a
\* sync.Mutex hands the lock to a goroutine that keeps waiting for it: the
\* Reduce goroutine is not starved and render releases the mutex it took.
\* Nothing makes the user produce another event.
Fairness ==
    /\ WF_vars(ReduceRecv)
    /\ SF_vars(ReduceLock)
    /\ WF_vars(ReduceApply)
    /\ WF_vars(RenderDraw)

SpecHold == Init /\ [][NextHold]_vars /\ Fairness

\* The main goroutine is scheduled like any other: its first send, a send
\* that has room in the channel and a Lock of a mutex that is free again
\* and again are not put off for ever.
MainFairness ==
    /\ WF_vars(MainSetStyle)
    /\ WF_vars(HandleTcellEvent)
    /\ SF_vars(RenderLock)

\* the program while a key is held, both goroutines scheduled fairly
SpecFair == Init /\ [][NextHold]_vars /\ Fairness /\ MainFairness

TypeOK ==
    /\ state.mode \in {NormalMode, SeekInputMode, PatternInputMode}
    /\ mutex \in {"free", "main", "reducer"}
    /\ Len(Dispatcher) <= DispatcherCap
    /\ run \in {"running", "exited", "panicked"}

\* ------------------------------------------------------------------------
\* Direct calls of findBytePattern, as Test_findBytePattern makes them
\* ------------------------------------------------------------------------

\* all sequences of at most n elements of the set
SeqsUpTo(elems, n) == UNION {[1..k -> elems] : k \in 0..n}

\* characters of the pattern texts: hex digits and one that is none
PatChars == {"0", "9", "f", "z"}

\* bytes of the buffers
BufBytes == {0, 9, 255}

CallBuffers == {TestBuf} \cup SeqsUpTo(BufBytes, MaxBufLen)

FindArgs ==
    {[fn |-> "findBytePattern", p |-> p, buf |-> b] :
        p \in SeqsUpTo(PatChars, MaxPatLen), b \in CallBuffers}

\* the test calls the function directly; the program around it stays in one
\* initial state
InitFind ==
    /\ InitProgram
    /\ termH = 2
    /\ state.dat = TestBuf
    /\ arg \in FindArgs
    /\ ret = NoCall

\* pos, err := findBytePattern(p, buf); a repeated call returns the same
CallFindBytePattern ==
    /\ arg.fn = "findBytePattern"
    /\ LET r == findBytePattern(arg.p, arg.buf)
       IN  ret' = [fn |-> "findBytePattern", pos |-> r.pos, err |-> r.err]
    /\ UNCHANGED << state, mutex, Dispatcher, termH, mpc, ev, rpc, action,
                    run, arg >>

NextFind == CallFindBytePattern

SpecFind == InitFind /\ [][NextFind]_vars

\* ------------------------------------------------------------------------
\* Properties
\* ------------------------------------------------------------------------

\* the Reduce goroutine completes the reduction of an action of the name n
Reduced(n) == rpc = "reduce" /\ action.name = n /\ rpc' = "recv"

\* the Reduce goroutine completes the reduction of a character key
ReducedChar ==
    rpc = "reduce" /\ action.name \in {BinxKeyS, BinxKeyF, BinxKeyOther}
        /\ rpc' = "recv"

\* C1: startByte is never negative, whatever actions have been reduced.
C1_StartByteNonNegative == state.startByte >= 0

\* C2: a render pass reads only indices of the buffer: the slice render is
\* about to range over does not fail and lies within [0, len(dat)).
C2_RenderInBounds ==
    mpc = "draw" =>
        /\ ~RenderPanics(state)
        /\ RenderReads(state) \subseteq 0..(Len(state.dat) - 1)

\* C3: a Commit in SeekInput whose text does not parse leaves the mode and
\* the text as they were and puts an error in status.
C3_SeekFailureStays ==
    [][(Reduced(BinxKeyEnter) /\ state.mode = SeekInputMode
            /\ ParseInt(state.userInput).err)
        => /\ state'.mode = SeekInputMode
           /\ state'.userInput = state.userInput
           /\ state'.status # NoError]_vars

\* C4: every Commit in PatternInput ends in Normal mode with an empty text.
C4_PatternCommitToNormal ==
    [][(Reduced(BinxKeyEnter) /\ state.mode = PatternInputMode)
        => /\ state'.mode = NormalMode
           /\ state'.userInput = << >>]_vars

\* C5: a Commit in PatternInput writes highlightPos only when the search
\* succeeds, and then with the offset of the match; an invalid or absent
\* pattern leaves highlightPos as it was.
C5_HighlightOnlyOnSuccess ==
    [][(Reduced(BinxKeyEnter) /\ state.mode = PatternInputMode)
        => LET r == findBytePattern(state.userInput, state.dat)
           IN  IF r.err # NoError \/ r.pos < 0
               THEN state'.highlightPos = state.highlightPos
               ELSE state'.highlightPos = r.pos]_vars

\* C6: in PatternInput every character typed is appended to the text.
C6_PatternAppendsEveryChar ==
    [][(ReducedChar /\ state.mode = PatternInputMode)
        => state'.userInput = Append(state.userInput, action.value)]_vars

\* C7: the seek round trip.  KeyS in Normal opens SeekInput with an empty
\* text, every character reduced in SeekInput is appended to the text, and a
\* Commit of the literal of n, in base 10, 16 or 8, sets startByte to n and
\* returns to Normal with the text cleared.
C7_SeekRoundTrip ==
    [][/\ (Reduced(BinxKeyS) /\ state.mode = NormalMode)
            => (state'.mode = SeekInputMode /\ state'.userInput = << >>)
       /\ (ReducedChar /\ state.mode = SeekInputMode)
            => /\ state'.userInput = Append(state.userInput, action.value)
               /\ state'.mode = SeekInputMode
       /\ \A t \in SeekTargets :
            (Reduced(BinxKeyEnter) /\ state.mode = SeekInputMode
                /\ state.userInput = Literal(t.n, t.base))
            => /\ state'.startByte = t.n
               /\ state'.mode = NormalMode
               /\ state'.userInput = << >>]_vars

\* the literal "0x10" has been committed: the viewport starts at 16
C7_Witness ==
    /\ state.lastAction = BinxKeyEnter
    /\ state.startByte = 16
    /\ state.mode = NormalMode
    /\ state.userInput = << >>

\* C8: Escape reduced in SeekInput or PatternInput returns to Normal with
\* the text cleared, leaves startByte and highlightPos alone and does not
\* end the session.
C8_EscapeCancels ==
    [][(rpc = "reduce" /\ action.name = BinxEscape
            /\ (rpc' = "recv" \/ run' = "exited")
            /\ state.mode \in {SeekInputMode, PatternInputMode})
        => /\ state'.mode = NormalMode
           /\ state'.userInput = << >>
           /\ state'.startByte = state.startByte
           /\ state'.highlightPos = state.highlightPos
           /\ run' = "running"]_vars

\* Escape has cancelled an input after the viewport and the highlight moved
C8_Witness ==
    /\ state.lastAction = BinxEscape
    /\ run = "running"
    /\ state.mode = NormalMode
    /\ state.startByte > 0
    /\ state.highlightPos # 0

\* C9: the session ends only by the reduction of Escape in Normal mode;
\* nothing else ends or crashes it.
C9_OnlyEscapeEnds ==
    [][(run = "running" /\ run' # "running")
        => /\ rpc = "reduce"
           /\ action.name = BinxEscape
           /\ state.mode = NormalMode
           /\ run' = "exited"]_vars

\* C10: actions are reduced in the order they were sent.  The actions sent
\* and not yet reduced, oldest first, grow only at the end, by the action
\* main sends, and shrink only at the front, by the action reduced.
C10_Fifo ==
    [][IF mpc = "handle" /\ mpc' = "render" /\ TranslateEvent(ev) # NoAction
       THEN InFlight' = Append(InFlight, TranslateEvent(ev))
       ELSE IF mpc = "setstyle" /\ mpc' = "poll"
       THEN InFlight' = Append(InFlight, Action(BinxSetScreenStyle, "style"))
       ELSE IF rpc = "reduce" /\ rpc' = "recv"
       THEN InFlight' = Tail(InFlight)
       ELSE InFlight' = InFlight]_vars

\* two different actions wait in the channel while a third is being reduced
C10_Witness ==
    /\ rpc = "reduce"
    /\ Len(Dispatcher) >= 2
    /\ Dispatcher[1] # Dispatcher[2]
    /\ action # Dispatcher[1]

RECURSIVE HexEncode(_)
HexEncode(bs) ==
    IF bs = << >> THEN << >>
    ELSE << DigitChars[(Head(bs) \div 16) + 1], DigitChars[(Head(bs) % 16) + 1] >>
         \o HexEncode(Tail(bs))

\* the bytes whose two hex digits are among 0, 9 and f
PatBytes == {0, 9, 15, 144, 153, 159, 240, 249, 255}

\* the byte patterns of one byte up to MaxPatLen \div 2 bytes
BytePatterns == SeqsUpTo(PatBytes, MaxPatLen \div 2) \ {<< >>}

\* findBytePattern has returned from the direct call
Returned == ret # NoCall /\ ret.fn = "findBytePattern"

\* C12: called with the hex text of a byte pattern that occurs in the
\* buffer, findBytePattern returns no error and the offset of the first
\* occurrence: the pattern occurs there and at no smaller offset.  "09" in
\* the bytes 0x00..0x09 gives 9.
C12_FirstOccurrence ==
    Returned =>
        /\ \A pat \in BytePatterns :
             (arg.p = HexEncode(pat)
                 /\ \E i \in 0..Len(arg.buf) : OccursAt(arg.buf, pat, i))
             => /\ ret.err = NoError
                /\ ret.pos \in 0..Len(arg.buf)
                /\ OccursAt(arg.buf, pat, ret.pos)
                /\ \A j \in 0..(ret.pos - 1) : ~OccursAt(arg.buf, pat, j)
        /\ (arg.p = << "0", "9" >> /\ arg.buf = TestBuf) => ret.pos = 9

\* a pattern that occurs twice has been found at its first occurrence
C12_Witness ==
    /\ Returned
    /\ arg.p = << "0", "9" >>
    /\ arg.buf = << 255, 9, 9 >>
    /\ ret.pos = 1

\* the characters hex.DecodeString accepts, of those typed here
HexChars == {"0", "9", "f"}

WellFormed(p) == Len(p) % 2 = 0 /\ \A i \in 1..Len(p) : p[i] \in HexChars

\* the bytes a well-formed text stands for occur in the buffer
Present(p, buf) ==
    \E pat \in BytePatterns \cup {<< >>} :
        /\ p = HexEncode(pat)
        /\ \E i \in 0..Len(buf) : OccursAt(buf, pat, i)

\* the outcome a caller reads from the pair (pos, err), err first
Outcome(r) ==
    IF r.err # NoError THEN "InvalidPattern"
    ELSE IF r.pos = 0 - 1 THEN "NotFound"
    ELSE "Match"

\* C13: the pair (pos, err) tells three outcomes apart.  An odd-length or
\* non-hex text returns a non-nil error; a well-formed text absent from the
\* buffer returns a nil error and -1; a match returns a nil error and an
\* offset within the buffer, which is never -1.  (The empty text is the
\* subject of C14.)
C13_ThreeOutcomes ==
    (Returned /\ arg.p # << >>) =>
        /\ ~WellFormed(arg.p) => Outcome(ret) = "InvalidPattern"
        /\ (WellFormed(arg.p) /\ ~Present(arg.p, arg.buf))
               => Outcome(ret) = "NotFound"
        /\ (WellFormed(arg.p) /\ Present(arg.p, arg.buf))
               => Outcome(ret) = "Match" /\ ret.pos \in 0..Len(arg.buf)

\* a well-formed pattern absent from the test's buffer has been searched
C13_Witness ==
    /\ Returned
    /\ arg.p = << "f", "f" >>
    /\ arg.buf = TestBuf
    /\ ret.pos = 0 - 1
    /\ ret.err = NoError

\* C14: the empty pattern is an invalid pattern: findBytePattern("", buf)
\* returns a non-nil error for every buffer.
C14_EmptyIsInvalid ==
    (Returned /\ arg.p = << >>) => ret.err # NoError

\* C15: the Commit of a well-formed pattern that is absent from the file
\* leaves a status that is none of the statuses an invalid pattern leaves,
\* whatever was reduced before.
C15_StatusTellsNotFound ==
    [][(/\ Reduced(BinxKeyEnter)
        /\ state.mode = PatternInputMode
        /\ state.userInput # << >>
        /\ WellFormed(state.userInput)
        /\ ~Present(state.userInput, state.dat))
          => state'.status \notin {ErrLength, InvalidByteError}]_vars

\* C16: BinxKeyUp reduced at a startByte >= 0 with a positive width sets
\* startByte to max(0, startByte - byteVisWidth); from a startByte below
\* the width the result is 0.
C16_ScrollUpClamps ==
    [][(Reduced(BinxKeyUp) /\ state.startByte >= 0 /\ state.byteVisWidth > 0)
        => /\ state'.startByte = Max(0, state.startByte - state.byteVisWidth)
           /\ state.startByte < state.byteVisWidth => state'.startByte = 0]_vars

\* an Up has left the viewport at 0 and a further Up is being reduced from
\* there, below the width
C16_Witness ==
    /\ state.lastAction = BinxKeyUp
    /\ state.startByte = 0
    /\ rpc = "reduce"
    /\ action.name = BinxKeyUp

\* C17: BinxKeyDown reduced in Normal mode adds byteVisWidth to startByte
\* and leaves mode and userInput alone; n of them in a row, sent and not yet
\* reduced, take startByte s to s + n * byteVisWidth.
C17_ScrollDownAdds ==
    /\ []((\A i \in 1..Len(InFlight) : InFlight[i].name = BinxKeyDown)
            => ReduceAll(state, InFlight, termH).startByte
                 = state.startByte + Len(InFlight) * state.byteVisWidth)
    /\ [][(Reduced(BinxKeyDown) /\ state.mode = NormalMode)
            => /\ state'.startByte = state.startByte + state.byteVisWidth
               /\ state'.mode = state.mode
               /\ state'.userInput = state.userInput]_vars

\* two Downs from 0 with the width 80 have been reduced
C17_Witness ==
    /\ state.lastAction = BinxKeyDown
    /\ state.byteVisWidth = 80
    /\ state.startByte = 160

\* C18: BinxResize reduced in any mode sets byteVisHeight to the height of
\* the terminal less the status line and leaves mode, byteVisWidth,
\* startByte, userInput and highlightPos alone.
C18_ResizeFrame ==
    [][Reduced(BinxResize)
        => /\ state'.byteVisHeight = termH - 1
           /\ state'.mode = state.mode
           /\ state'.byteVisWidth = state.byteVisWidth
           /\ state'.startByte = state.startByte
           /\ state'.userInput = state.userInput
           /\ state'.highlightPos = state.highlightPos]_vars

\* a resize has been reduced while a text was being typed
C18_Witness ==
    /\ state.lastAction = BinxResize
    /\ state.mode \in {SeekInputMode, PatternInputMode}
    /\ state.userInput # << >>
    /\ state.byteVisHeight = termH - 1

\* C19: in Normal mode the text is empty.
C19_NormalHasNoInput ==
    state.mode = NormalMode => state.userInput = << >>

\* a character key has been reduced in Normal mode, after a Commit in
\* SeekInput returned there
C19_Witness ==
    /\ state.lastAction = BinxKeyOther
    /\ state.mode = NormalMode
    /\ state.startByte > 0
    /\ state.userInput = << >>

\* C20: when render reads the state, every action sent before it has been
\* reduced.
C20_RenderSeesReduced ==
    mpc = "draw" => InFlight = << >>

\* C21: reduction and render exclude each other.  The Reduce goroutine is
\* never between Lock and Unlock of rootReducer while main is between Lock
\* and Unlock of render; the reducer holds the mutex exactly while it is
\* inside one reduction (not while it waits for or receives the next
\* action) and main exactly while it is inside one render pass.
C21_MutualExclusion ==
    /\ ~(rpc = "reduce" /\ mpc = "draw")
    /\ mutex = "reducer" <=> rpc = "reduce"
    /\ mutex = "main" <=> mpc = "draw"

\* the reducer is inside a reduction while main waits at render's Lock
C21_Witness ==
    /\ run = "running"
    /\ rpc = "reduce"
    /\ mutex = "reducer"
    /\ mpc = "render"

C23_ViewportPositive ==
    /\ state.byteVisWidth > 0
    /\ state.byteVisHeight > 0

\* C24: a Commit in SeekInput whose text does not parse leaves startByte as
\* it was.
C24_FailedSeekKeepsStart ==
    [][(Reduced(BinxKeyEnter) /\ state.mode = SeekInputMode
            /\ ParseInt(state.userInput).err)
        => state'.startByte = state.startByte]_vars

====
